---- MODULE Spec2Model ----
(***************************************************************************)
(* asana-deps-graph: the rendering of a task dependency graph as Graphviz  *)
(* or Mermaid text (src/asana_deps_graph.py).                              *)
(*                                                                         *)
(* A text (a name, a label, a line) is the sequence of its fragments: the  *)
(* literal pieces of the source's f-strings are one fragment each, an id   *)
(* is one fragment, and a task name is split into its characters, so that  *)
(* str.replace acts on characters. The concatenation of the fragments is   *)
(* the Python string.                                                      *)
(*                                                                         *)
(* A dict is the sequence of its items in insertion order (Python dicts    *)
(* keep it): the task collection is a sequence of Task records with        *)
(* distinct ids, an attribute dict a sequence of <<key, value>> pairs.     *)
(***************************************************************************)
EXTENDS Integers, Sequences, FiniteSets, TLC

VARIABLES
    data,       \* the 'data' list of the API response read by get_tasks
    tasks,      \* the dict id -> Task handed to build_graph_lines
    renderer,   \* the Renderer class chosen on the command line
    pc,         \* where main / the build_graph_lines generator stands
    i,          \* index of the task of the running loop
    j,          \* index into that task's blocked_by (edge loop)
    out         \* the lines yielded so far

vars == <<data, tasks, renderer, pc, i, j, out>>

(***************************************************************************)
(* Bounds of the model.                                                    *)
(***************************************************************************)
MaxTasks == 2       \* tasks in a collection
MaxEdges == 2       \* blocked_by entries in a collection, all tasks together
MaxNameLen == 2     \* characters in a task name (specification SpecNames)

DQ == "\""
SQ == "'"
Chars == {"x", DQ, SQ}
\* The backtick of Mermaid's markdown strings (no TLA+ string can hold the
\* character itself).
BT == "<backtick>"

\* The gid of the k-th task of the response; MissingId is a gid of no task.
Gid(k) == "t" \o ToString(k)
MissingId == "t0"

(***************************************************************************)
(* Helpers on sequences.                                                   *)
(***************************************************************************)
Range(s) == {s[k] : k \in 1..Len(s)}

SeqsUpTo(S, n) == UNION {[1..m -> S] : m \in 0..n}

RECURSIVE Flatten(_)
Flatten(ss) == IF ss = <<>> THEN <<>> ELSE Head(ss) \o Flatten(Tail(ss))

RECURSIVE SumLen(_)
SumLen(ss) == IF ss = <<>> THEN 0 ELSE Len(Head(ss)) + SumLen(Tail(ss))

\* sep.join(parts)
RECURSIVE Join(_, _)
Join(sep, parts) ==
    IF parts = <<>> THEN <<>>
    ELSE IF Len(parts) = 1 THEN parts[1]
    ELSE parts[1] \o <<sep>> \o Join(sep, Tail(parts))

(***************************************************************************)
(* dict operations.                                                        *)
(***************************************************************************)
\* key in d
HasKey(d, key) == \E k \in 1..Len(d) : d[k][1] = key

\* A list where a dict was meant: the item is appended even when the key exists.
DictSetAppend(d, key, val) == Append(d, <<key, val>>)

\* d[key] = val, and each item of d |= {...}: an existing key keeps its place
\* and takes the new value, a new key goes to the end.
DictSet(d, key, val) ==
    IF HasKey(d, key)
    THEN [k \in 1..Len(d) |-> IF d[k][1] = key THEN <<key, val>> ELSE d[k]]
    ELSE Append(d, <<key, val>>)

\* d |= items, items in the order of the dict display
RECURSIVE DictUpdate(_, _)
DictUpdate(d, items) ==
    IF items = <<>> THEN d
    ELSE DictUpdate(DictSet(d, items[1][1], items[1][2]), Tail(items))

\* key in tasks, tasks[key] (the task collection is keyed by Task.id)
HasTask(ts, id) == \E k \in 1..Len(ts) : ts[k].id = id
TaskAt(ts, id) == ts[CHOOSE k \in 1..Len(ts) : ts[k].id = id]

(***************************************************************************)
(* get_tasks and main's dict comprehension.                                *)
(***************************************************************************)
\* str.replace that stops after the first occurrence.
ReplaceFirst(s) ==
    [k \in 1..Len(s) |->
        IF s[k] = DQ /\ (\A m \in 1..(k - 1) : s[m] # DQ) THEN SQ ELSE s[k]]

\* s.replace('"', "'")
Replace(s) == [k \in 1..Len(s) |-> IF s[k] = DQ THEN SQ ELSE s[k]]

\* One Task of get_tasks, from one record of the response.
MakeTask(raw) ==
    [id           |-> raw.gid,
     name         |-> Replace(raw.name),
     blocked_by   |-> [k \in 1..Len(raw.dependencies) |-> raw.dependencies[k].gid],
     is_milestone |-> (raw.resource_subtype = "milestone"),
     is_completed |-> raw.completed]

\* {task.id: task for task in ...}: a repeated id keeps its first place and
\* takes the last task.
RECURSIVE TaskDict(_, _)
TaskDict(d, ts) ==
    IF ts = <<>> THEN d
    ELSE LET t == Head(ts)
             d2 == IF HasTask(d, t.id)
                   THEN [k \in 1..Len(d) |-> IF d[k].id = t.id THEN t ELSE d[k]]
                   ELSE Append(d, t)
         IN TaskDict(d2, Tail(ts))

(***************************************************************************)
(* The readiness test shared by both _render_node methods:                 *)
(*   all(all_tasks[blocker].is_completed for blocker in task.blocked_by)   *)
(* all() stops at the first blocker that is not completed; the lookup of a *)
(* blocker that is no key raises KeyError.                                 *)
(***************************************************************************)
\* any() where all() was meant
RECURSIVE AnyCompleted(_, _)
AnyCompleted(blockers, all_tasks) ==
    IF blockers = <<>> THEN "True"
    ELSE IF ~HasTask(all_tasks, Head(blockers)) THEN "KeyError"
    ELSE IF TaskAt(all_tasks, Head(blockers)).is_completed THEN "True"
    ELSE IF Tail(blockers) = <<>> THEN "False"
    ELSE AnyCompleted(Tail(blockers), all_tasks)

RECURSIVE AllCompleted(_, _)
AllCompleted(blockers, all_tasks) ==
    IF blockers = <<>> THEN "True"
    ELSE IF ~HasTask(all_tasks, Head(blockers)) THEN "KeyError"
    ELSE IF ~TaskAt(all_tasks, Head(blockers)).is_completed THEN "False"
    ELSE AllCompleted(Tail(blockers), all_tasks)

\* is_blocked of _render_node, where the lookups succeed
IsBlocked(task, all_tasks) == AllCompleted(task.blocked_by, all_tasks) # "True"

\* ', '.join(f'{k}={v}' for k, v in attrs.items()) and its Mermaid counterpart
\* ','.join(f'{key}:{val}' ...)
JoinItems(sep, eq, d) == Join(sep, [k \in 1..Len(d) |-> <<d[k][1], eq>> \o d[k][2]])

(***************************************************************************)
(* class Graphviz                                                          *)
(***************************************************************************)
GraphvizMILESTONE_COLOR == "darkgreen"
GraphvizCOMPLETED_COLOR == "gray"

\* The label of lines 82-91
GraphvizLabel(task, all_tasks) ==
    LET name == Replace(task.name)
    IN IF task.is_completed
       THEN <<"<<S>">> \o name \o <<"</S>>">>
       ELSE IF ~IsBlocked(task, all_tasks)
       THEN <<"<<B>">> \o name \o <<"</B>>">>
       ELSE <<DQ>> \o name \o <<DQ>>

\* The attribute dict of _render_node, as it stands at line 115
GraphvizNodeAttrs(task, all_tasks) ==
    LET a0 == <<<<"style", <<"rounded">>>>>>
        a1 == DictUpdate(a0, <<<<"label", GraphvizLabel(task, all_tasks)>>>>)
        a2 == IF task.is_milestone
              THEN LET m == DictUpdate(a1, <<<<"color", <<GraphvizMILESTONE_COLOR>>>>>>)
                   IN IF task.is_completed
                      THEN DictUpdate(m, <<<<"style", <<"filled">>>>,
                                           <<"fillcolor", <<GraphvizMILESTONE_COLOR>>>>,
                                           <<"fontcolor", <<GraphvizCOMPLETED_COLOR>>>>>>)
                      ELSE DictUpdate(m, <<<<"fontcolor", <<GraphvizMILESTONE_COLOR>>>>>>)
              ELSE IF task.is_completed
              THEN DictUpdate(a1, <<<<"color", <<GraphvizCOMPLETED_COLOR>>>>,
                                    <<"fontcolor", <<GraphvizCOMPLETED_COLOR>>>>>>)
              ELSE a1
    IN IF task.is_milestone
       THEN DictUpdate(a2, <<<<"shape", <<"hexagon">>>>>>)
       ELSE DictUpdate(a2, <<<<"shape", <<"box">>>>>>)

\* Graphviz._render_node, where the lookups succeed: f'{task.id} [{attributes}];'
GraphvizRenderNode(task, all_tasks) ==
    <<task.id, " [">> \o JoinItems(", ", "=", GraphvizNodeAttrs(task, all_tasks)) \o <<"];">>

\* An edge coloured by its end instead of its start.
GraphvizRenderEdgeByEnd(start, end) ==
    LET attrs == IF end.is_completed
                 THEN DictUpdate(<<>>, <<<<"color", <<GraphvizCOMPLETED_COLOR>>>>>>)
                 ELSE <<>>
    IN <<start.id, " -> ", end.id, " [">> \o JoinItems(", ", "=", attrs) \o <<"];">>

\* Graphviz._render_edge: f'{start.id} -> {end.id} [{attributes}];'
GraphvizRenderEdge(start, end) ==
    LET attrs == IF start.is_completed
                 THEN DictUpdate(<<>>, <<<<"color", <<GraphvizCOMPLETED_COLOR>>>>>>)
                 ELSE <<>>
    IN <<start.id, " -> ", end.id, " [">> \o JoinItems(", ", "=", attrs) \o <<"];">>

(***************************************************************************)
(* class Mermaid                                                           *)
(***************************************************************************)
MermaidMILESTONE_STROKE == "darkgreen"
MermaidMILESTONE_FILL == "darkseagreen"
MermaidCOMPLETED_COLOR == "lightgray"

\* The label of lines 150-158
MermaidLabel(task, all_tasks) ==
    LET name == Replace(task.name)
    IN IF task.is_completed
       THEN <<"fa:fa-check ">> \o name
       ELSE IF ~IsBlocked(task, all_tasks)
       THEN <<"**">> \o name \o <<"**">>
       ELSE <<"far:fa-hourglass ">> \o name

\* The style dict without the elif of lines 167-168.
MermaidStyleNoElif(task, all_tasks) ==
    LET s1 == IF task.is_completed
              THEN DictUpdate(<<>>, <<<<"stroke", <<MermaidCOMPLETED_COLOR>>>>>>)
              ELSE IF ~IsBlocked(task, all_tasks)
              THEN DictUpdate(<<>>, <<<<"stroke-width", <<"2px">>>>>>)
              ELSE <<>>
    IN IF task.is_milestone
       THEN LET m == DictUpdate(s1, <<<<"stroke", <<MermaidMILESTONE_STROKE>>>>>>)
            IN IF task.is_completed
               THEN DictUpdate(m, <<<<"fill", <<"none">>>>>>)
               ELSE DictUpdate(m, <<<<"fill", <<MermaidMILESTONE_FILL>>>>,
                                    <<"stroke-width", <<"4px">>>>>>)
       ELSE s1

\* The style dict of _render_node, as it stands at line 177
MermaidStyle(task, all_tasks) ==
    LET s1 == IF task.is_completed
              THEN DictUpdate(<<>>, <<<<"stroke", <<MermaidCOMPLETED_COLOR>>>>>>)
              ELSE IF ~IsBlocked(task, all_tasks)
              THEN DictUpdate(<<>>, <<<<"stroke-width", <<"2px">>>>>>)
              ELSE <<>>
    IN IF task.is_milestone
       THEN LET m == DictUpdate(s1, <<<<"stroke", <<MermaidMILESTONE_STROKE>>>>>>)
            IN IF task.is_completed
               THEN DictUpdate(m, <<<<"fill", <<"none">>>>>>)
               ELSE DictUpdate(m, <<<<"fill", <<MermaidMILESTONE_FILL>>>>,
                                    <<"stroke-width", <<"4px">>>>>>)
       ELSE IF task.is_completed
       THEN DictUpdate(s1, <<<<"stroke", <<"none">>>>, <<"fill", <<"none">>>>>>)
       ELSE s1

\* The first line of Mermaid._render_node: f'{task.id}{open}"`{label}`"{close}'
MermaidNodeLine(task, all_tasks) ==
    LET open == IF task.is_milestone THEN "{{" ELSE "(["
        close == IF task.is_milestone THEN "}}" ELSE "])"
    IN <<task.id, open, DQ, BT>> \o MermaidLabel(task, all_tasks) \o <<BT, DQ, close>>

\* The style line emitted whatever the style dict holds.
MermaidHasStyleAlways(task, all_tasks) == TRUE

\* if style: (line 177)
MermaidHasStyle(task, all_tasks) == MermaidStyle(task, all_tasks) # <<>>

\* The second line of Mermaid._render_node: f'style {task.id} {style_str};'
MermaidStyleLine(task, all_tasks) ==
    <<"style ", task.id, " ">> \o JoinItems(",", ":", MermaidStyle(task, all_tasks)) \o <<";">>

\* Mermaid._render_edge: f'{start.id} {arrow} {end.id}'
MermaidRenderEdge(start, end) ==
    <<start.id, " ", IF start.is_completed THEN "-.->" ELSE "-->", " ", end.id>>

(***************************************************************************)
(* The build_graph_lines generators. Each action is one resumption of the  *)
(* generator by its consumer (the print call of main): it runs to the      *)
(* next yield, to the end of the generator, or to the exception that       *)
(* leaves it. <<pc, i, j>> names the statement the next resumption reaches.*)
(***************************************************************************)
\* The edge loops (lines 70-72, 137-139) from task a, blocker b on: the next
\* pair, or what follows the loops: the closing yield of Graphviz, the end of
\* the Mermaid generator.
\* The inner loop left after its first blocker.
RECURSIVE EdgePosOnce(_, _, _, _)
EdgePosOnce(ts, r, a, b) ==
    IF a > Len(ts)
    THEN [pc |-> IF r = "Graphviz" THEN "close" ELSE "end", i |-> 0, j |-> 0]
    ELSE IF b <= Len(ts[a].blocked_by) /\ b <= 1
    THEN [pc |-> "edges", i |-> a, j |-> b]
    ELSE EdgePosOnce(ts, r, a + 1, 1)

RECURSIVE EdgePos(_, _, _, _)
EdgePos(ts, r, a, b) ==
    IF a > Len(ts)
    THEN [pc |-> IF r = "Graphviz" THEN "close" ELSE "end", i |-> 0, j |-> 0]
    ELSE IF b <= Len(ts[a].blocked_by)
    THEN [pc |-> "edges", i |-> a, j |-> b]
    ELSE EdgePos(ts, r, a + 1, 1)

\* One loop for nodes and edges: the edges into a task right after its node.
NodePosInterleaved(ts, r, a) ==
    IF a > 1 /\ ts[a - 1].blocked_by # <<>> THEN [pc |-> "edges", i |-> a - 1, j |-> 1]
    ELSE IF a <= Len(ts) THEN [pc |-> "nodes", i |-> a, j |-> 0]
    ELSE EdgePos(ts, r, 1, 1)

\* The node loops (lines 68-69, 135-136) from task a on.
NodePos(ts, r, a) ==
    IF a <= Len(ts) THEN [pc |-> "nodes", i |-> a, j |-> 0] ELSE EdgePos(ts, r, 1, 1)

Goto(pos) == pc' = pos.pc /\ i' = pos.i /\ j' = pos.j

\* get_tasks, and the dict built from it in main (line 209)
GetTasks ==
    /\ pc = "main"
    /\ tasks' = TaskDict(<<>>, [k \in 1..Len(data) |-> MakeTask(data[k])])
    /\ pc' = "start"
    /\ UNCHANGED <<data, renderer, i, j, out>>

\* yield 'digraph{'
GraphvizOpen ==
    /\ pc = "start" /\ renderer = "Graphviz"
    /\ out' = Append(out, <<"digraph{">>)
    /\ Goto(NodePos(tasks, renderer, 1))
    /\ UNCHANGED <<data, tasks, renderer>>

\* yield self._render_node(task, tasks)
GraphvizNode ==
    /\ pc = "nodes" /\ renderer = "Graphviz"
    /\ AllCompleted(tasks[i].blocked_by, tasks) # "KeyError"
    /\ out' = Append(out, GraphvizRenderNode(tasks[i], tasks))
    /\ Goto(NodePos(tasks, renderer, i + 1))
    /\ UNCHANGED <<data, tasks, renderer>>

\* all_tasks[blocker] raises KeyError in _render_node (line 79)
GraphvizNodeKeyError ==
    /\ pc = "nodes" /\ renderer = "Graphviz"
    /\ AllCompleted(tasks[i].blocked_by, tasks) = "KeyError"
    /\ pc' = "KeyError"
    /\ UNCHANGED <<data, tasks, renderer, i, j, out>>

\* yield self._render_edge(tasks[dependency_id], task)
GraphvizEdge ==
    /\ pc = "edges" /\ renderer = "Graphviz"
    /\ HasTask(tasks, tasks[i].blocked_by[j])
    /\ out' = Append(out, GraphvizRenderEdge(TaskAt(tasks, tasks[i].blocked_by[j]), tasks[i]))
    /\ Goto(EdgePos(tasks, renderer, i, j + 1))
    /\ UNCHANGED <<data, tasks, renderer>>

\* tasks[dependency_id] raises KeyError (line 72)
GraphvizEdgeKeyError ==
    /\ pc = "edges" /\ renderer = "Graphviz"
    /\ ~HasTask(tasks, tasks[i].blocked_by[j])
    /\ pc' = "KeyError"
    /\ UNCHANGED <<data, tasks, renderer, i, j, out>>

\* yield '}'
GraphvizClose ==
    /\ pc = "close" /\ renderer = "Graphviz"
    /\ out' = Append(out, <<"}">>)
    /\ pc' = "end"
    /\ UNCHANGED <<data, tasks, renderer, i, j>>

\* The generator started without its header line.
MermaidHeaderMissing ==
    /\ pc = "start" /\ renderer = "Mermaid"
    /\ Goto(NodePos(tasks, renderer, 1))
    /\ UNCHANGED <<data, tasks, renderer, out>>

\* yield 'flowchart TB'
MermaidHeader ==
    /\ pc = "start" /\ renderer = "Mermaid"
    /\ out' = Append(out, <<"flowchart TB">>)
    /\ Goto(NodePos(tasks, renderer, 1))
    /\ UNCHANGED <<data, tasks, renderer>>

\* yield from self._render_node(task, tasks): its first yield (line 175)
MermaidNode ==
    /\ pc = "nodes" /\ renderer = "Mermaid"
    /\ AllCompleted(tasks[i].blocked_by, tasks) # "KeyError"
    /\ out' = Append(out, MermaidNodeLine(tasks[i], tasks))
    /\ IF MermaidHasStyle(tasks[i], tasks)
       THEN pc' = "style" /\ UNCHANGED <<i, j>>
       ELSE Goto(NodePos(tasks, renderer, i + 1))
    /\ UNCHANGED <<data, tasks, renderer>>

\* its second yield (line 179)
MermaidNodeStyle ==
    /\ pc = "style" /\ renderer = "Mermaid"
    /\ out' = Append(out, MermaidStyleLine(tasks[i], tasks))
    /\ Goto(NodePos(tasks, renderer, i + 1))
    /\ UNCHANGED <<data, tasks, renderer>>

\* all_tasks[blocker] raises KeyError in _render_node (line 147)
MermaidNodeKeyError ==
    /\ pc = "nodes" /\ renderer = "Mermaid"
    /\ AllCompleted(tasks[i].blocked_by, tasks) = "KeyError"
    /\ pc' = "KeyError"
    /\ UNCHANGED <<data, tasks, renderer, i, j, out>>

\* yield self._render_edge(tasks[dependency_id], task)
MermaidEdge ==
    /\ pc = "edges" /\ renderer = "Mermaid"
    /\ HasTask(tasks, tasks[i].blocked_by[j])
    /\ out' = Append(out, MermaidRenderEdge(TaskAt(tasks, tasks[i].blocked_by[j]), tasks[i]))
    /\ Goto(EdgePos(tasks, renderer, i, j + 1))
    /\ UNCHANGED <<data, tasks, renderer>>

\* tasks[dependency_id] raises KeyError (line 139)
MermaidEdgeKeyError ==
    /\ pc = "edges" /\ renderer = "Mermaid"
    /\ ~HasTask(tasks, tasks[i].blocked_by[j])
    /\ pc' = "KeyError"
    /\ UNCHANGED <<data, tasks, renderer, i, j, out>>

\* The generator ends: print has every line, main returns 0.
Return ==
    /\ pc = "end"
    /\ pc' = "done"
    /\ UNCHANGED <<data, tasks, renderer, i, j, out>>

Next ==
    \/ GetTasks
    \/ GraphvizOpen \/ GraphvizNode \/ GraphvizNodeKeyError
    \/ GraphvizEdge \/ GraphvizEdgeKeyError \/ GraphvizClose
    \/ MermaidHeader \/ MermaidNode \/ MermaidNodeStyle \/ MermaidNodeKeyError
    \/ MermaidEdge \/ MermaidEdgeKeyError
    \/ Return

(***************************************************************************)
(* The inputs.                                                             *)
(***************************************************************************)
Renderers == {"Graphviz", "Mermaid"}
Subtypes == {"default_task", "milestone"}

\* The ids a dependency of a response of n tasks may name.
DepIds(n) == {Gid(k) : k \in 1..n} \cup {MissingId}

\* The dependency lists of n tasks, at most MaxEdges entries in all: m entries
\* e[1..m], the entry e[x] in the list of task own[x], own non-decreasing.
Owners(n, m) ==
    {own \in [1..m -> 1..n] : \A x \in 1..m, y \in 1..m : x <= y => own[x] <= own[y]}

DepsOf(n, m, e, own) ==
    [k \in 1..n |->
        LET idx == SelectSeq([x \in 1..m |-> x], LAMBDA x : own[x] = k)
        IN [y \in 1..Len(idx) |-> e[idx[y]]]]

\* A response of n tasks: dependency lists d, completion flags c, subtypes st
\* and names nm.
Response(n, d, c, st, nm) ==
    [k \in 1..n |->
        [gid              |-> Gid(k),
         name             |-> nm[k],
         completed        |-> c[k],
         dependencies     |-> [m \in 1..Len(d[k]) |-> [gid |-> d[k][m]]],
         resource_subtype |-> st[k]]]

\* The name every task has where the names are not what varies.
SomeName == <<"x", DQ>>

\* main on a response of at most MaxTasks tasks.
Init ==
    /\ \E n \in 0..MaxTasks, m \in 0..MaxEdges :
         \E e \in [1..m -> DepIds(n)], own \in Owners(n, m),
            c \in [1..n -> BOOLEAN], st \in [1..n -> Subtypes] :
            data = Response(n, DepsOf(n, m, e, own), c, st, [k \in 1..n |-> SomeName])
    /\ renderer \in Renderers
    /\ tasks = <<>>
    /\ pc = "main"
    /\ i = 0 /\ j = 0
    /\ out = <<>>

Spec == Init /\ [][Next]_vars

Names == SeqsUpTo(Chars, MaxNameLen)

\* One task of any name of at most MaxNameLen characters: either main on the
\* response, or build_graph_lines called on a collection whose names
\* get_tasks has not seen.
InitNames ==
    /\ renderer \in Renderers
    /\ i = 0 /\ j = 0
    /\ out = <<>>
    /\ \E m \in 0..MaxEdges :
       \E e \in [1..m -> DepIds(1)], own \in Owners(1, m),
          c \in [1..1 -> BOOLEAN], st \in [1..1 -> Subtypes], nm \in [1..1 -> Names] :
         LET resp == Response(1, DepsOf(1, m, e, own), c, st, nm)
         IN \/ /\ data = resp
               /\ tasks = <<>>
               /\ pc = "main"
            \/ /\ data = <<>>
               /\ tasks = [k \in 1..Len(resp) |->
                              [MakeTask(resp[k]) EXCEPT !.name = resp[k].name]]
               /\ pc = "start"

SpecNames == InitNames /\ [][Next]_vars

(***************************************************************************)
(* Reading the output back: what a line is, taken from its text alone.     *)
(***************************************************************************)
\* Every id in a blocked_by list is a key of the collection.
Closed(ts) ==
    \A k \in 1..Len(ts) : \A m \in 1..Len(ts[k].blocked_by) : HasTask(ts, ts[k].blocked_by[m])

\* The dependency pairs <<predecessor id, dependent id>>: tasks in collection
\* order, each task's blocked_by in list order.
DependencyPairs(ts) ==
    Flatten([k \in 1..Len(ts) |->
                [m \in 1..Len(ts[k].blocked_by) |-> <<ts[k].blocked_by[m], ts[k].id>>]])

IsPrefix(s, t) == Len(s) <= Len(t) /\ \A k \in 1..Len(s) : s[k] = t[k]

\* The pieces of s between the separators sep.
RECURSIVE SplitFrom(_, _, _, _)
SplitFrom(s, sep, k, cur) ==
    IF k > Len(s) THEN <<cur>>
    ELSE IF s[k] = sep THEN <<cur>> \o SplitFrom(s, sep, k + 1, <<>>)
    ELSE SplitFrom(s, sep, k + 1, Append(cur, s[k]))

Split(s, sep) == IF s = <<>> THEN <<>> ELSE SplitFrom(s, sep, 1, <<>>)

\* 'key<eq>value' items read as <<key, value>> pairs.
Items(s, sep, eq) ==
    LET parts == Split(s, sep)
    IN [k \in 1..Len(parts) |-> <<parts[k][1], SubSeq(parts[k], 3, Len(parts[k]))>>]

WellFormedItems(s, sep, eq) ==
    \A part \in Range(Split(s, sep)) : Len(part) >= 3 /\ part[2] = eq

Keys(items) == [k \in 1..Len(items) |-> items[k][1]]
Count(s, x) == Cardinality({k \in 1..Len(s) : s[k] = x})
\* The value of the first item with this key.
ValueOf(items, key) == items[CHOOSE k \in 1..Len(items) : items[k][1] = key][2]

IsGraphvizNode(line) == Len(line) >= 3 /\ line[2] = " [" /\ line[Len(line)] = "];"
IsGraphvizEdge(line) == Len(line) >= 5 /\ line[2] = " -> " /\ line[4] = " [" /\ line[Len(line)] = "];"
IsMermaidStyle(line) == Len(line) >= 4 /\ line[1] = "style " /\ line[3] = " " /\ line[Len(line)] = ";"
IsMermaidNode(line) ==
    /\ Len(line) >= 7
    /\ ~IsMermaidStyle(line)
    /\ <<line[2], line[Len(line)]>> \in {<<"{{", "}}">>, <<"([", "])">>}
    /\ <<line[3], line[4]>> = <<DQ, BT>>
    /\ <<line[Len(line) - 2], line[Len(line) - 1]>> = <<BT, DQ>>
IsMermaidEdge(line) == Len(line) = 5 /\ line[2] = " " /\ line[4] = " " /\ line[3] \in {"-.->", "-->"}

IsNode(line) == IF renderer = "Graphviz" THEN IsGraphvizNode(line) ELSE IsMermaidNode(line)
IsEdge(line) == IF renderer = "Graphviz" THEN IsGraphvizEdge(line) ELSE IsMermaidEdge(line)

NodeLines == SelectSeq(out, IsNode)
EdgeLines == SelectSeq(out, IsEdge)
StyleLines == SelectSeq(out, IsMermaidStyle)

\* The id a node or style line is about; the pair an edge line joins.
NodeId(line) == line[1]
StyleId(line) == line[2]
EdgePair(line) == IF renderer = "Graphviz" THEN <<line[1], line[3]>> ELSE <<line[1], line[5]>>

GraphvizAttrText(line) == SubSeq(line, 3, Len(line) - 1)
MermaidLabelText(line) == SubSeq(line, 5, Len(line) - 3)
MermaidStyleText(line) == SubSeq(line, 4, Len(line) - 1)

\* The whole output of a run that ended, on a closed collection.
RenderedClosed(r) == renderer = r /\ pc = "done" /\ Closed(tasks)

(***************************************************************************)
(* C1. On a closed collection the Graphviz output starts with 'digraph{',  *)
(* ends with '}' and has 2 + (tasks) + (blocked_by entries) lines, also    *)
(* for the empty collection, a repeated id and a task that names itself;   *)
(* and the run does end.                                                   *)
(***************************************************************************)
C1_GraphvizFrameAndCount ==
    (renderer = "Graphviz" /\ Closed(tasks)) =>
        /\ pc # "KeyError"
        /\ pc = "done" =>
            /\ Len(out) >= 2
            /\ out[1] = <<"digraph{">>
            /\ out[Len(out)] = <<"}">>
            /\ Len(out) = 2 + Len(tasks) + SumLen([k \in 1..Len(tasks) |-> tasks[k].blocked_by])

\* A finished Graphviz run on a task blocked twice by itself.
C1_Witness ==
    /\ RenderedClosed("Graphviz")
    /\ \E k \in 1..Len(tasks) : tasks[k].blocked_by = <<tasks[k].id, tasks[k].id>>

(***************************************************************************)
(* C2. As claimed: the Mermaid output on a closed collection begins with   *)
(* 'flowchart TB' and has (tasks) + (style lines) + (dependency edges)     *)
(* lines.                                                                  *)
(***************************************************************************)
C2_MermaidCountAsClaimed ==
    RenderedClosed("Mermaid") =>
        /\ Len(out) >= 1
        /\ out[1] = <<"flowchart TB">>
        /\ Len(out) = Len(tasks) + Len(StyleLines) + Len(DependencyPairs(tasks))

(***************************************************************************)
(* C2, amended. The Mermaid output on a closed collection begins with      *)
(* 'flowchart TB', every later line is a node, style or edge line (there   *)
(* is no closing line), and it has 1 + (tasks) + (style lines) +           *)
(* (dependency edges) lines: the header counts.                            *)
(***************************************************************************)
C2_MermaidHeaderAndCount ==
    (renderer = "Mermaid" /\ Closed(tasks)) =>
        /\ pc # "KeyError"
        /\ pc = "done" =>
            /\ Len(out) >= 1
            /\ out[1] = <<"flowchart TB">>
            /\ \A p \in 2..Len(out) :
                  IsMermaidNode(out[p]) \/ IsMermaidStyle(out[p]) \/ IsMermaidEdge(out[p])
            /\ Len(NodeLines) = Len(tasks)
            /\ Len(EdgeLines) = Len(DependencyPairs(tasks))
            /\ Len(out) = 1 + Len(tasks) + Len(StyleLines) + Len(DependencyPairs(tasks))

\* A finished Mermaid run with a style line and an edge as its last line.
C2_Witness ==
    /\ RenderedClosed("Mermaid")
    /\ Len(StyleLines) >= 1
    /\ IsMermaidEdge(out[Len(out)])

(***************************************************************************)
(* C4. As claimed: where a blocked_by list names an id that is no key,     *)
(* neither renderer fails with a lookup error while its lines are          *)
(* consumed.                                                               *)
(***************************************************************************)
C4_NoCrashOnDanglingId ==
    (pc # "main" /\ ~Closed(tasks)) => pc # "KeyError"

(***************************************************************************)
(* The three classes of section 4.1, from the task's fields.               *)
(***************************************************************************)
Ready(task, ts) ==
    \A m \in 1..Len(task.blocked_by) : TaskAt(ts, task.blocked_by[m]).is_completed

ClassOf(task, ts) ==
    IF task.is_completed THEN "completed"
    ELSE IF Ready(task, ts) THEN "ready"
    ELSE "blocked"

\* A name with every double quote turned into a single quote.
QuotesReplaced(name) == [k \in 1..Len(name) |-> IF name[k] = DQ THEN SQ ELSE name[k]]

\* The class a label shows, read from its text.
GraphvizLabelClass(label) ==
    IF label[1] = "<<S>" /\ label[Len(label)] = "</S>>" THEN "completed"
    ELSE IF label[1] = "<<B>" /\ label[Len(label)] = "</B>>" THEN "ready"
    ELSE IF label[1] = DQ /\ label[Len(label)] = DQ THEN "blocked"
    ELSE "none"

MermaidLabelClass(label) ==
    IF label[1] = "fa:fa-check " THEN "completed"
    ELSE IF label[1] = "**" /\ label[Len(label)] = "**" THEN "ready"
    ELSE IF label[1] = "far:fa-hourglass " THEN "blocked"
    ELSE "none"

\* The label of the k-th node line of the output.
NodeLabel(k) ==
    IF renderer = "Graphviz"
    THEN ValueOf(Items(GraphvizAttrText(NodeLines[k]), ", ", "="), "label")
    ELSE MermaidLabelText(NodeLines[k])

\* The label the claim gives a task of class c and (sanitized) name nm.
ClaimedLabel(r, c, nm) ==
    IF r = "Graphviz"
    THEN CASE c = "completed" -> <<"<<S>">> \o nm \o <<"</S>>">>
           [] c = "ready"     -> <<"<<B>">> \o nm \o <<"</B>>">>
           [] c = "blocked"   -> <<DQ>> \o nm \o <<DQ>>
    ELSE CASE c = "completed" -> <<"fa:fa-check ">> \o nm
           [] c = "ready"     -> <<"**">> \o nm \o <<"**">>
           [] c = "blocked"   -> <<"far:fa-hourglass ">> \o nm

(***************************************************************************)
(* C3. On a closed collection each task's node line carries the label form *)
(* of its class: completed iff is_completed (whatever its predecessors),   *)
(* ready iff not completed and every predecessor completed, blocked iff    *)
(* not completed and some predecessor incomplete; a non-completed task     *)
(* with no predecessor is ready; and the Graphviz and the Mermaid label of *)
(* a task show the same class.                                             *)
(***************************************************************************)
C3_LabelFormByClass ==
    /\ (pc = "done" /\ Closed(tasks)) =>
          /\ Len(NodeLines) = Len(tasks)
          /\ \A k \in 1..Len(tasks) :
                LET c == ClassOf(tasks[k], tasks)
                    label == NodeLabel(k)
                IN /\ label = ClaimedLabel(renderer, c, QuotesReplaced(tasks[k].name))
                   /\ c = IF renderer = "Graphviz" THEN GraphvizLabelClass(label)
                                                   ELSE MermaidLabelClass(label)
                   /\ (~tasks[k].is_completed /\ tasks[k].blocked_by = <<>>) => c = "ready"
    /\ (pc # "main" /\ Closed(tasks)) =>
          \A k \in 1..Len(tasks) :
             GraphvizLabelClass(GraphvizLabel(tasks[k], tasks))
                = MermaidLabelClass(MermaidLabel(tasks[k], tasks))

\* A finished run with a completed task whose predecessor is incomplete, that
\* predecessor being ready for want of predecessors.
C3_Witness ==
    /\ pc = "done" /\ Closed(tasks)
    /\ \E k \in 1..Len(tasks), m \in 1..Len(tasks) :
          /\ tasks[k].is_completed /\ tasks[k].blocked_by = <<tasks[m].id>>
          /\ ~tasks[m].is_completed /\ tasks[m].blocked_by = <<>>

(***************************************************************************)
(* C5. In every output on a closed collection, as far as it has been       *)
(* produced: every node line precedes every edge line; the node lines are  *)
(* those of the tasks in collection order; the edge lines are those of the *)
(* dependency pairs, tasks in collection order and blocked_by in list      *)
(* order; a Mermaid style line directly follows the node line of its task. *)
(* A finished output has them all.                                         *)
(***************************************************************************)
C5_LineOrder ==
    Closed(tasks) =>
        /\ \A p \in 1..Len(out), q \in 1..Len(out) :
              (IsNode(out[p]) /\ IsEdge(out[q])) => p < q
        /\ IsPrefix([k \in 1..Len(NodeLines) |-> NodeId(NodeLines[k])],
                    [k \in 1..Len(tasks) |-> tasks[k].id])
        /\ IsPrefix([k \in 1..Len(EdgeLines) |-> EdgePair(EdgeLines[k])],
                    DependencyPairs(tasks))
        /\ \A p \in 1..Len(out) :
              IsMermaidStyle(out[p]) =>
                 /\ renderer = "Mermaid"
                 /\ p > 1 /\ IsMermaidNode(out[p - 1])
                 /\ NodeId(out[p - 1]) = StyleId(out[p])
        /\ pc = "done" =>
              /\ Len(NodeLines) = Len(tasks)
              /\ Len(EdgeLines) = Len(DependencyPairs(tasks))

\* A finished Mermaid run of two tasks, the first with a style line, and two
\* edges into one task.
C5_Witness ==
    /\ RenderedClosed("Mermaid")
    /\ Len(tasks) = 2
    /\ Len(out) >= 3 /\ IsMermaidStyle(out[3])
    /\ \E k \in 1..Len(tasks) : Len(tasks[k].blocked_by) = 2
                                /\ tasks[k].blocked_by[1] # tasks[k].blocked_by[2]

(***************************************************************************)
(* C6. On a closed collection the edge line of each dependency pair (p, t) *)
(* runs from p to t and is marked iff p is completed, whatever t is:       *)
(* Graphviz 'p -> t [color=gray];' against 'p -> t [];', Mermaid           *)
(* 'p -.-> t' against 'p --> t'.                                           *)
(***************************************************************************)
C6_EdgeDirectionAndMark ==
    (pc = "done" /\ Closed(tasks)) =>
        LET pairs == DependencyPairs(tasks)
        IN /\ Len(EdgeLines) = Len(pairs)
           /\ \A k \in 1..Len(pairs) :
                 LET p == pairs[k][1]
                     t == pairs[k][2]
                     satisfied == TaskAt(tasks, p).is_completed
                 IN EdgeLines[k] =
                       IF renderer = "Graphviz"
                       THEN IF satisfied
                            THEN <<p, " -> ", t, " [", "color", "=", "gray", "];">>
                            ELSE <<p, " -> ", t, " [", "];">>
                       ELSE IF satisfied
                            THEN <<p, " ", "-.->", " ", t>>
                            ELSE <<p, " ", "-->", " ", t>>

\* A finished run with an edge from a completed task to an incomplete one and
\* an edge from an incomplete task to a completed one.
C6_Witness ==
    /\ pc = "done" /\ Closed(tasks)
    /\ \E k \in 1..Len(tasks), m \in 1..Len(tasks) :
          /\ tasks[k].is_completed /\ ~tasks[m].is_completed
          /\ tasks[k].blocked_by = <<tasks[m].id>>
          /\ tasks[m].blocked_by = <<tasks[k].id>>

\* The value of an attribute of a list of items, <<"absent">> where the key is
\* not among them.
Attr(items, key) ==
    IF \E k \in 1..Len(items) : items[k][1] = key THEN ValueOf(items, key) ELSE <<"absent">>

(***************************************************************************)
(* C7. In every Graphviz node line the colour and shape attributes follow  *)
(* from (is_milestone, is_completed) alone: a milestone is a hexagon of    *)
(* color darkgreen, with fontcolor darkgreen when not completed, and with  *)
(* style filled, fillcolor darkgreen and fontcolor gray when completed; a  *)
(* completed non-milestone is a box of color gray and fontcolor gray; a    *)
(* non-completed non-milestone is a box with no color, fontcolor or        *)
(* fillcolor; style is rounded on all but the completed milestone; no      *)
(* attribute key appears twice.                                            *)
(***************************************************************************)
C7_GraphvizNodeAttributes ==
    (renderer = "Graphviz" /\ out # <<>> /\ IsGraphvizNode(out[Len(out)])) =>
        \* the node line just yielded is that of task k: every node line of
        \* every run, complete or cut short by an error, is the last line once
        LET k == Len(NodeLines)
            text == GraphvizAttrText(NodeLines[k])
            attrs == Items(text, ", ", "=")
            task == tasks[k]
            look == [key \in {"style", "shape", "color", "fontcolor", "fillcolor"} |->
                        Attr(attrs, key)]
        IN /\ NodeId(NodeLines[k]) = task.id
           /\ WellFormedItems(text, ", ", "=")
           /\ \A m \in 1..Len(attrs) : Count(Keys(attrs), attrs[m][1]) = 1
           /\ look =
                IF task.is_milestone /\ task.is_completed
                THEN [style |-> <<"filled">>, shape |-> <<"hexagon">>,
                      color |-> <<"darkgreen">>, fontcolor |-> <<"gray">>,
                      fillcolor |-> <<"darkgreen">>]
                ELSE IF task.is_milestone
                THEN [style |-> <<"rounded">>, shape |-> <<"hexagon">>,
                      color |-> <<"darkgreen">>, fontcolor |-> <<"darkgreen">>,
                      fillcolor |-> <<"absent">>]
                ELSE IF task.is_completed
                THEN [style |-> <<"rounded">>, shape |-> <<"box">>,
                      color |-> <<"gray">>, fontcolor |-> <<"gray">>,
                      fillcolor |-> <<"absent">>]
                ELSE [style |-> <<"rounded">>, shape |-> <<"box">>,
                      color |-> <<"absent">>, fontcolor |-> <<"absent">>,
                      fillcolor |-> <<"absent">>]

\* The node line of a completed milestone just yielded, after that of a
\* blocked task that is neither completed nor a milestone.
C7_Witness ==
    /\ renderer = "Graphviz" /\ Len(out) = 3 /\ IsGraphvizNode(out[3])
    /\ tasks[2].is_milestone /\ tasks[2].is_completed
    /\ ~tasks[1].is_milestone /\ ~tasks[1].is_completed
    /\ tasks[1].blocked_by = <<tasks[1].id>>

\* The style lines of the task with this id.
StyleLinesOf(id) == SelectSeq(StyleLines, LAMBDA line : StyleId(line) = id)

(***************************************************************************)
(* C8. On a closed collection Mermaid emits at most one style line per     *)
(* task, and one iff the task is completed, ready or a milestone: only a   *)
(* blocked, non-completed, non-milestone task has none; a style line never *)
(* has an empty property list.                                             *)
(***************************************************************************)
C8_MermaidStyleLinePresence ==
    RenderedClosed("Mermaid") =>
        /\ \A k \in 1..Len(tasks) :
              LET n == Len(StyleLinesOf(tasks[k].id))
              IN /\ n <= 1
                 /\ n = 1 <=> \/ ClassOf(tasks[k], tasks) \in {"completed", "ready"}
                              \/ tasks[k].is_milestone
        /\ \A p \in 1..Len(StyleLines) :
              /\ MermaidStyleText(StyleLines[p]) # <<>>
              /\ WellFormedItems(MermaidStyleText(StyleLines[p]), ",", ":")

\* A finished Mermaid run with a blocked plain task (no style line) and a
\* blocked milestone (a style line).
C8_Witness ==
    /\ RenderedClosed("Mermaid")
    /\ \E k \in 1..Len(tasks), m \in 1..Len(tasks) :
          /\ ~tasks[k].is_milestone /\ ClassOf(tasks[k], tasks) = "blocked"
          /\ tasks[m].is_milestone /\ ClassOf(tasks[m], tasks) = "blocked"

(***************************************************************************)
(* C10. On a closed collection the Mermaid style line of a completed       *)
(* non-milestone is exactly stroke:none,fill:none, that of a completed     *)
(* milestone exactly stroke:darkgreen,fill:none, and lightgray is in no    *)
(* style line; the stroke-width of a non-completed milestone, ready or     *)
(* blocked, is 4px, the 2px of a ready task being overwritten.             *)
(***************************************************************************)
C10_MermaidStyleOverwrites ==
    RenderedClosed("Mermaid") =>
        /\ \A p \in 1..Len(StyleLines) : "lightgray" \notin Range(StyleLines[p])
        /\ \A k \in 1..Len(tasks) :
              LET task == tasks[k]
                  mine == StyleLinesOf(task.id)
                  text == MermaidStyleText(mine[1])
                  items == Items(text, ",", ":")
              IN /\ task.is_completed =>
                      /\ Len(mine) = 1
                      /\ text = IF task.is_milestone
                                THEN <<"stroke", ":", "darkgreen", ",", "fill", ":", "none">>
                                ELSE <<"stroke", ":", "none", ",", "fill", ":", "none">>
                 /\ (task.is_milestone /\ ~task.is_completed) =>
                      /\ Len(mine) = 1
                      /\ Count(Keys(items), "stroke-width") = 1
                      /\ Attr(items, "stroke-width") = <<"4px">>
                      /\ "2px" \notin Range(text)

\* A finished Mermaid run with a completed plain task and a ready milestone.
C10_Witness ==
    /\ RenderedClosed("Mermaid")
    /\ \E k \in 1..Len(tasks), m \in 1..Len(tasks) :
          /\ tasks[k].is_completed /\ ~tasks[k].is_milestone
          /\ tasks[m].is_milestone /\ ClassOf(tasks[m], tasks) = "ready"

\* The name as it stands in the label of the k-th node line: the label without
\* the markup around it.
NameInLabel(k) ==
    LET label == NodeLabel(k)
    IN IF renderer = "Mermaid" /\ label[1] \in {"fa:fa-check ", "far:fa-hourglass "}
       THEN SubSeq(label, 2, Len(label))
       ELSE SubSeq(label, 2, Len(label) - 1)

\* The name of the k-th task as it came in: in the response where main
\* fetched it, in the collection where the renderer was called on it.
GivenName(k) == IF data # <<>> THEN data[k].name ELSE tasks[k].name

(***************************************************************************)
(* C9. Sanitizing a name turns every double quote into a single quote and  *)
(* changes nothing else, and sanitizing twice is sanitizing once: whether  *)
(* the name passed through get_tasks or reaches the renderer with its      *)
(* double quotes, the name in a node line has no double quote and is       *)
(* otherwise the given name, character for character.                      *)
(***************************************************************************)
C9_NameSanitized ==
    /\ \A k \in 1..Len(tasks) :
          /\ Replace(Replace(tasks[k].name)) = Replace(tasks[k].name)
          /\ data # <<>> => tasks[k].name = QuotesReplaced(data[k].name)
    /\ \A k \in 1..Len(NodeLines) :
          LET text == NameInLabel(k)
              given == GivenName(k)
          IN /\ DQ \notin Range(text)
             /\ Len(text) = Len(given)
             /\ \A m \in 1..Len(given) :
                   text[m] = IF given[m] = DQ THEN SQ ELSE given[m]

\* A node line of a task whose name reached the renderer with two double
\* quotes in it.
C9_Witness ==
    /\ data = <<>> /\ Len(NodeLines) >= 1
    /\ tasks[1].name = <<DQ, DQ>>

\* A node line of a task whose name had a double quote in the response.
C9_WitnessFetched ==
    /\ data # <<>> /\ Len(NodeLines) >= 1
    /\ DQ \in Range(data[1].name)

====
